---- MODULE Spec2Model ----
(***************************************************************************)
(* Chat route of ai-chatbot-supabase: the POST turn (validation, chat      *)
(* lookup and creation, user-message save, streamText generation loop with *)
(* its tools, onFinish persistence and StreamData close) and the DELETE    *)
(* handler, over the chat / message / document / suggestion tables.        *)
(***************************************************************************)
EXTENDS Integers, Sequences, FiniteSets, TLC

\* ------------------------------------------------------------------ bounds
NumReqs == 2          \* concurrent requests of the racing specification
MaxWire == 2          \* wire messages in one request body
MaxCalls == 2         \* tool calls the model requests in one step
MaxToolCalls == 1     \* tool calls of one turn when the document tools are offered
MaxParts == 2         \* stream parts of one nested generation
MaxElements == 6      \* elements the suggestion generation may produce
MaxCodecParts == 3    \* parts of a message handed to formatMessageContent

\* ------------------------------------------------------- program constants
maxSteps == 5

\* ------------------------------------------------------------------ values
Users == {"u1", "u2"}
NoUser == "nobody"
ChatIds == {"c1"}
NoChat == "nochat"
Reqs == 1..NumReqs
Deltas == {"a", "b"}
Titles == {"Plan"}
D1 == <<0, 1>>            \* id of the document that exists from the start
Missing == <<0, 2>>       \* an id no document has
D0 == <<0, 3>>            \* id of a document whose content is empty
DocArgs == {D1, D0, Missing}
ToolNames == {"getWeather", "createDocument", "updateDocument", "requestSuggestions"}
NoId == <<0, 0>>

\* ------------------------------------------------------------------- state
VARIABLES
    chats,       \* chats table: chat id -> user_id of the row, NoUser when absent
    messages,    \* messages table: sequence of rows in insertion order
    documents,   \* documents table: set of rows, one per id
    suggestions, \* suggestions table: sequence of rows in insertion order
    env,         \* what the environment of this run offers (requests, tools)
    pc,          \* position of each request in its handler
    req,         \* the parsed request of each handler invocation
    outcome,     \* what each handler invocation returned or threw
    turn         \* per-request turn state (StreamData, step counter, ...)

vars == <<chats, messages, documents, suggestions, env, pc, req, outcome, turn>>

\* ----------------------------------------------------------------- helpers
Last(s) == s[Len(s)]

Range(s) == {s[i] : i \in 1..Len(s)}

RECURSIVE SetToSeq(_)
SetToSeq(S) ==
    IF S = {} THEN <<>>
    ELSE LET x == CHOOSE y \in S : TRUE IN <<x>> \o SetToSeq(S \ {x})

WireLists == UNION {[1..n -> {"user", "assistant"}] : n \in 0..MaxWire}

\* convertToCoreMessages: every wire message keeps its role; its content is
\* the plain string the client typed.
convertToCoreMessages(wire) ==
    [i \in 1..Len(wire) |->
        [role |-> wire[i], content |-> [kind |-> "string", text |-> "hello"]]]

NoMessage == [role |-> "none", content |-> [kind |-> "string", text |-> ""]]

\* getMostRecentUserMessage: the last message of role user, if any
getMostRecentUserMessage(core) ==
    LET idx == {i \in 1..Len(core) : core[i].role = "user"}
    IN IF idx = {} THEN NoMessage
       ELSE core[CHOOSE i \in idx : \A j \in idx : j <= i]

\* formatMessageContent that keeps only the text parts of an assistant message
formatMessageContentTextOnly(message) ==
    IF message.role = "user" THEN
        IF message.content.kind = "string"
        THEN [kind |-> "string", text |-> message.content.text]
        ELSE [kind |-> "json", parts |-> message.content.parts]
    ELSE IF message.role = "tool" THEN
        [kind |-> "json",
         parts |-> [i \in 1..Len(message.content.parts) |->
            LET content == message.content.parts[i]
            IN [type |-> IF content.type = "" THEN "tool-result" ELSE content.type,
                toolCallId |-> content.toolCallId,
                toolName |-> content.toolName]]]
    ELSE IF message.role = "assistant" THEN
        IF message.content.kind = "string"
        THEN [kind |-> "json",
              parts |-> <<[type |-> "text", text |-> message.content.text]>>]
        ELSE [kind |-> "json",
              parts |-> SelectSeq(message.content.parts, LAMBDA c : c.type = "text")]
    ELSE [kind |-> "string", text |-> ""]

\* formatMessageContent that writes "tool-result" on every tool part
formatMessageContentToolResult(message) ==
    IF message.role = "user" THEN
        IF message.content.kind = "string"
        THEN [kind |-> "string", text |-> message.content.text]
        ELSE [kind |-> "json", parts |-> message.content.parts]
    ELSE IF message.role = "tool" THEN
        [kind |-> "json",
         parts |-> [i \in 1..Len(message.content.parts) |->
            LET content == message.content.parts[i]
            IN [type |-> "tool-result",
                toolCallId |-> content.toolCallId,
                toolName |-> content.toolName]]]
    ELSE IF message.role = "assistant" THEN
        IF message.content.kind = "string"
        THEN [kind |-> "json",
              parts |-> <<[type |-> "text", text |-> message.content.text]>>]
        ELSE [kind |-> "json",
              parts |-> [i \in 1..Len(message.content.parts) |->
                LET content == message.content.parts[i]
                IN IF content.type = "text"
                   THEN [type |-> "text", text |-> content.text]
                   ELSE [type |-> "tool-call",
                         toolCallId |-> content.toolCallId,
                         toolName |-> content.toolName]]]
    ELSE [kind |-> "string", text |-> ""]

\* formatMessageContent: the stored form of a message's content.  A plain
\* string is stored as it is; JSON.stringify of an array is the array of the
\* rewritten parts.
formatMessageContent(message) ==
    IF message.role = "user" THEN
        IF message.content.kind = "string"
        THEN [kind |-> "string", text |-> message.content.text]
        ELSE [kind |-> "json", parts |-> message.content.parts]
    ELSE IF message.role = "tool" THEN
        [kind |-> "json",
         parts |-> [i \in 1..Len(message.content.parts) |->
            LET content == message.content.parts[i]
            IN [type |-> IF content.type = "" THEN "tool-result" ELSE content.type,
                toolCallId |-> content.toolCallId,
                toolName |-> content.toolName]]]
    ELSE IF message.role = "assistant" THEN
        IF message.content.kind = "string"
        THEN [kind |-> "json",
              parts |-> <<[type |-> "text", text |-> message.content.text]>>]
        ELSE [kind |-> "json",
              parts |-> [i \in 1..Len(message.content.parts) |->
                LET content == message.content.parts[i]
                IN IF content.type = "text"
                   THEN [type |-> "text", text |-> content.text]
                   ELSE [type |-> "tool-call",
                         toolCallId |-> content.toolCallId,
                         toolName |-> content.toolName]]]
    ELSE [kind |-> "string", text |-> ""]

\* the well-typed messages formatMessageContent may be handed: the parts an
\* assistant, a tool and a user message can hold, and the messages over them
AssistantParts ==
    {[type |-> "text", text |-> "t"],
     [type |-> "tool-call", toolCallId |-> <<1, 1>>, toolName |-> "getWeather"]}

ToolParts ==
    {[type |-> t, toolCallId |-> <<1, 1>>, toolName |-> "getWeather"] :
        t \in {"", "tool-result", "custom"}}

UserParts == {[type |-> "text", text |-> "t"]}

PartLists(S) == UNION {[1..n -> S] : n \in 0..MaxCodecParts}

CoreMessages ==
    {[role |-> role, content |-> [kind |-> "string", text |-> "hello"]] :
        role \in {"user", "assistant", "system"}}
    \cup {[role |-> "user", content |-> [kind |-> "parts", parts |-> l]] :
            l \in PartLists(UserParts)}
    \cup {[role |-> "assistant", content |-> [kind |-> "parts", parts |-> l]] :
            l \in PartLists(AssistantParts)}
    \cup {[role |-> "tool", content |-> [kind |-> "parts", parts |-> l]] :
            l \in PartLists(ToolParts)}

\* ------------------------------------------------------------ the database
ModelIds == {"gpt-4o", "nonexistent"}

\* models of ai/models: the registered model ids
models == {"gpt-4o"}

ChatExistsError == "Chat ID already exists"
StoreError == "store error"
ProviderError == "provider error"

\* getChatById: the row of the chat, null (NoUser) when there is none
getChatById(id) == chats[id]

\* ChatRowExists with no constraint between the messages and chats tables
ChatRowAssumed(id) == TRUE

\* the messages.chat_id foreign key: a message row needs its chat row
ChatRowExists(id) == chats[id] # NoUser

\* saveChat inserts the chat row; the id is the primary key
saveChat(id, userId) == [chats EXCEPT ![id] = userId]

\* saveMessages inserts the whole batch, every row under chatId
saveMessages(chatId, rows) ==
    messages \o [i \in 1..Len(rows) |-> [rows[i] EXCEPT !.chat_id = chatId]]

\* deleteChatById removes the chat row of that owner and, with it, its messages
deleteChatById(id, userId) ==
    IF chats[id] = userId THEN [chats EXCEPT ![id] = NoUser] ELSE chats

CascadeMessages(newChats) ==
    SelectSeq(messages, LAMBDA m : newChats[m.chat_id] # NoUser)

\* ------------------------------------------------------------- turn state
NewTurn ==
    [created |-> FALSE,    \* new StreamData() has run
     stream |-> <<>>,      \* what StreamData received, in order
     steps |-> 0,          \* model invocations of the streamText loop
     response |-> <<>>,    \* responseMessages accumulated by the loop
     calls |-> <<>>,       \* tool executions of the current step
     ids |-> 0,            \* generateUUID draws of this request
     text |-> "",          \* text the model produced in the current step
     toolCalls |-> 0,      \* tool calls the model has requested so far
     chat |-> "unread",    \* the local chat: what getChatById returned
     userSaves |-> 0,      \* user-message rows this request inserted
     writes |-> 0,         \* table writes this request performed
     deletes |-> 0,        \* deleteChatById invocations of this request
     saved |-> "none",     \* the response save of onFinish: none, ok or failed
     conflict |-> FALSE]   \* saveChat threw ChatExistsError

NoRequest ==
    [kind |-> "none", user |-> NoUser, id |-> NoChat, modelId |-> "",
     userMessage |-> NoMessage]

\* generateUUID: a value no other draw returns
generateUUID(r, n) == <<r, turn[r].ids + n>>

Event(ch, type, content, src) ==
    [ch |-> ch, type |-> type, content |-> content, src |-> src]

Finish(r, result) ==
    /\ pc' = [pc EXCEPT ![r] = "done"]
    /\ outcome' = [outcome EXCEPT ![r] = result]

Goto(r, label) ==
    /\ pc' = [pc EXCEPT ![r] = label]
    /\ UNCHANGED outcome

\* Catch with the conflict branch lost: every error is thrown again
CatchRethrow(r, error) == Finish(r, "thrown")

\* The catch block of POST: the chat-id conflict falls through to a second
\* save of the user message, every other error is thrown again.
Catch(r, error) ==
    IF error = ChatExistsError THEN Goto(r, "catchSave") ELSE Finish(r, "thrown")

\* ------------------------------------------------------------------- Init
ExistingMessage(id) ==
    [id |-> <<0, 1>>, chat_id |-> id, role |-> "user",
     content |-> [kind |-> "string", text |-> "hello"]]

InitDb ==
    /\ chats \in [ChatIds -> {"u1", NoUser}]
    /\ messages = SetToSeq({ExistingMessage(c) : c \in {x \in ChatIds : chats[x] # NoUser}})
    /\ documents = {[id |-> D1, title |-> "Plan", content |-> <<"a">>,
                     userId |-> "u1"],
                    [id |-> D0, title |-> "Empty", content |-> <<>>,
                     userId |-> "u1"]}
    /\ suggestions = <<>>

InitReqs ==
    /\ pc = [r \in Reqs |-> "idle"]
    /\ req = [r \in Reqs |-> NoRequest]
    /\ outcome = [r \in Reqs |-> "pending"]
    /\ turn = [r \in Reqs |-> NewTurn]

\* one turn, with the tools
Init ==
    /\ InitDb
    /\ InitReqs
    /\ env = [reqs |-> 1, calls |-> MaxToolCalls, total |-> MaxToolCalls,
              tools |-> ToolNames, elems |-> MaxParts]

\* one turn in which the model may call getWeather in every step
InitLoop ==
    /\ InitDb
    /\ InitReqs
    /\ env = [reqs |-> 1, calls |-> MaxCalls, total |-> 2 * maxSteps * MaxCalls,
              tools |-> {"getWeather"}, elems |-> 0]

\* one turn in which the model may call getWeather once in every step
InitLoopFair ==
    /\ InitDb
    /\ InitReqs
    /\ env = [reqs |-> 1, calls |-> 1, total |-> 2 * maxSteps,
              tools |-> {"getWeather"}, elems |-> 0]

\* several requests racing on the same chat, the model answering with text
InitRace ==
    /\ InitDb
    /\ InitReqs
    /\ env = [reqs |-> NumReqs, calls |-> 0, total |-> 0, tools |-> {}, elems |-> 0]

\* one turn in which the model asks for suggestions and the nested generation
\* may produce more elements than the prompt asks for
InitSuggest ==
    /\ InitDb
    /\ InitReqs
    /\ env = [reqs |-> 1, calls |-> 1, total |-> 1,
              tools |-> {"requestSuggestions"}, elems |-> MaxElements]

\* one turn in which a step may run two document tool executions concurrently
InitTools ==
    /\ InitDb
    /\ InitReqs
    /\ env = [reqs |-> 1, calls |-> 2, total |-> 2,
              tools |-> {"createDocument", "updateDocument"}, elems |-> 0]

\* one message of any role and shape waits to be formatted for storage
InitCodec ==
    /\ InitDb
    /\ chats = [id \in ChatIds |-> NoUser]
    /\ pc = [r \in Reqs |-> IF r = 1 THEN "format" ELSE "idle"]
    /\ req = [r \in Reqs |-> NoRequest]
    /\ outcome = [r \in Reqs |-> "pending"]
    /\ \E message \in CoreMessages :
          turn = [r \in Reqs |->
                    IF r = 1 THEN [NewTurn EXCEPT !.response = <<message>>]
                    ELSE NewTurn]
    /\ env = [reqs |-> 0, calls |-> 0, total |-> 0, tools |-> {}, elems |-> 0]

\* ------------------------------------------------------------------- POST
\* Validate without the model lookup
ValidateNoModel(user, modelId, userMessage) ==
    IF user = NoUser THEN "thrown"
    ELSE IF userMessage = NoMessage THEN "400"
    ELSE "ok"

\* CheckChat without the ownership branch
CheckChatNoOwner(chat, user) ==
    IF chat = NoUser THEN "create" ELSE "ok"

\* lines 404-424: getUser throws without a session, an unknown model is a
\* 404, a message list without a user message is a 400
Validate(user, modelId, userMessage) ==
    IF user = NoUser THEN "thrown"
    ELSE IF modelId \notin models THEN "404"
    ELSE IF userMessage = NoMessage THEN "400"
    ELSE "ok"

\* lines 431-440: what POST does with the chat it looked up
CheckChat(chat, user) ==
    IF chat = NoUser THEN "create"
    ELSE IF chat # user THEN "401"
    ELSE "ok"

\* lines 397-424: parse, authenticate, validate the model and the messages
POST_validate(r) ==
    /\ pc[r] = "idle"
    /\ r <= env.reqs
    /\ \E user \in Users \cup {NoUser}, id \in ChatIds,
          modelId \in ModelIds, wire \in WireLists :
          LET coreMessages == convertToCoreMessages(wire)
              userMessage == getMostRecentUserMessage(coreMessages)
              status == Validate(user, modelId, userMessage)
          IN /\ req' = [req EXCEPT ![r] =
                    [kind |-> "POST", user |-> user, id |-> id,
                     modelId |-> modelId, userMessage |-> userMessage]]
             /\ IF status = "ok" THEN Goto(r, "getChat") ELSE Finish(r, status)
    /\ UNCHANGED <<chats, messages, documents, suggestions, env, turn>>

\* lines 429-440: look the chat up and branch on it
POST_getChat(r) ==
    /\ pc[r] = "getChat"
    /\ \/ LET chat == getChatById(req[r].id)
              branch == CheckChat(chat, req[r].user)
          IN /\ turn' = [turn EXCEPT ![r].chat = chat]
             /\ IF branch = "create" THEN Goto(r, "generateTitle")
                ELSE IF branch = "401" THEN Finish(r, "401")
                ELSE Goto(r, "saveUserMessage")
       \/ /\ Catch(r, StoreError)
          /\ UNCHANGED turn
    /\ UNCHANGED <<chats, messages, documents, suggestions, env, req>>

\* POST_generateTitle that goes on to the user message without saveChat
POST_generateTitleSkipSaveChat(r) ==
    /\ pc[r] = "generateTitle"
    /\ \/ Goto(r, "saveUserMessage")
       \/ Catch(r, ProviderError)
    /\ UNCHANGED <<chats, messages, documents, suggestions, env, req, turn>>

\* lines 433-435
POST_generateTitle(r) ==
    /\ pc[r] = "generateTitle"
    /\ \/ Goto(r, "saveChat")
       \/ Catch(r, ProviderError)
    /\ UNCHANGED <<chats, messages, documents, suggestions, env, req, turn>>

\* POST_saveChat over a saveChat that overwrites the row of an existing id
POST_saveChatUpsert(r) ==
    /\ pc[r] = "saveChat"
    /\ \/ /\ chats' = saveChat(req[r].id, req[r].user)
          /\ Goto(r, "saveUserMessage")
          /\ turn' = [turn EXCEPT ![r].writes = @ + 1]
       \/ /\ Catch(r, StoreError)
          /\ UNCHANGED <<chats, turn>>
    /\ UNCHANGED <<messages, documents, suggestions, env, req>>

\* line 436
POST_saveChat(r) ==
    /\ pc[r] = "saveChat"
    /\ \/ /\ getChatById(req[r].id) = NoUser
          /\ chats' = saveChat(req[r].id, req[r].user)
          /\ Goto(r, "saveUserMessage")
          /\ turn' = [turn EXCEPT ![r].writes = @ + 1]
       \/ /\ getChatById(req[r].id) # NoUser
          /\ Catch(r, ChatExistsError)
          /\ turn' = [turn EXCEPT ![r].conflict = TRUE]
          /\ UNCHANGED chats
       \/ /\ Catch(r, StoreError)
          /\ UNCHANGED <<chats, turn>>
    /\ UNCHANGED <<messages, documents, suggestions, env, req>>

UserMessageRow(r) ==
    [id |-> generateUUID(r, 1), chat_id |-> req[r].id,
     role |-> req[r].userMessage.role,
     content |-> formatMessageContent(req[r].userMessage)]

\* POST_saveUserMessage with the insert left out
POST_saveUserMessageSkipped(r) ==
    /\ pc[r] = "saveUserMessage"
    /\ turn' = [turn EXCEPT ![r].ids = @ + 1]
    /\ Goto(r, "streamText")
    /\ UNCHANGED <<chats, messages, documents, suggestions, env, req>>

\* lines 442-454
POST_saveUserMessage(r) ==
    /\ pc[r] = "saveUserMessage"
    /\ \/ /\ ChatRowExists(req[r].id)
          /\ messages' = saveMessages(req[r].id, <<UserMessageRow(r)>>)
          /\ turn' = [turn EXCEPT ![r].ids = @ + 1, ![r].userSaves = @ + 1,
                                  ![r].writes = @ + 1]
          /\ Goto(r, "streamText")
       \/ /\ Catch(r, StoreError)
          /\ turn' = [turn EXCEPT ![r].ids = @ + 1]
          /\ UNCHANGED messages
    /\ UNCHANGED <<chats, documents, suggestions, env, req>>

\* POST_catchSave that goes back into the try block after its save
POST_catchSaveRetry(r) ==
    /\ pc[r] = "catchSave"
    /\ \/ /\ ChatRowExists(req[r].id)
          /\ messages' = saveMessages(req[r].id, <<UserMessageRow(r)>>)
          /\ turn' = [turn EXCEPT ![r].ids = @ + 1, ![r].userSaves = @ + 1,
                                  ![r].writes = @ + 1]
          /\ Goto(r, "saveUserMessage")
       \/ /\ turn' = [turn EXCEPT ![r].ids = @ + 1]
          /\ Finish(r, "thrown")
          /\ UNCHANGED messages
    /\ UNCHANGED <<chats, documents, suggestions, env, req>>

\* lines 825-836: the catch block saves the user message and falls off the
\* end of the handler, which returns no Response
POST_catchSave(r) ==
    /\ pc[r] = "catchSave"
    /\ \/ /\ ChatRowExists(req[r].id)
          /\ messages' = saveMessages(req[r].id, <<UserMessageRow(r)>>)
          /\ turn' = [turn EXCEPT ![r].ids = @ + 1, ![r].userSaves = @ + 1,
                                  ![r].writes = @ + 1]
          /\ Finish(r, "none")
       \/ /\ turn' = [turn EXCEPT ![r].ids = @ + 1]
          /\ Finish(r, "thrown")
          /\ UNCHANGED messages
    /\ UNCHANGED <<chats, documents, suggestions, env, req>>

\* line 436, run by a request of another server instance: the chat row
\* appears while this instance's requests are under way
Other_saveChat ==
    /\ \E id \in ChatIds, user \in Users :
          /\ getChatById(id) = NoUser
          /\ chats' = saveChat(id, user)
    /\ UNCHANGED <<messages, documents, suggestions, env, pc, req, outcome, turn>>

\* ----------------------------------------------------------------- DELETE
\* lines 846-854
DELETE_begin(r) ==
    /\ pc[r] = "idle"
    /\ r <= env.reqs
    /\ \E user \in Users \cup {NoUser}, id \in ChatIds \cup {NoChat} :
          /\ req' = [req EXCEPT ![r] =
                 [kind |-> "DELETE", user |-> user, id |-> id,
                  modelId |-> "", userMessage |-> NoMessage]]
          /\ IF id = NoChat THEN Finish(r, "404")
             ELSE IF user = NoUser THEN Finish(r, "thrown")
             ELSE Goto(r, "deleteGetChat")
    /\ UNCHANGED <<chats, messages, documents, suggestions, env, turn>>

\* DELETE_getChat without the ownership test
DELETE_getChatNoOwner(r) ==
    /\ pc[r] = "deleteGetChat"
    /\ \/ LET chat == getChatById(req[r].id)
          IN /\ turn' = [turn EXCEPT ![r].chat = chat]
             /\ IF chat = NoUser THEN Finish(r, "404")
                ELSE Goto(r, "deleteChat")
       \/ /\ Finish(r, "500")
          /\ UNCHANGED turn
    /\ UNCHANGED <<chats, messages, documents, suggestions, env, req>>

\* lines 858-867
DELETE_getChat(r) ==
    /\ pc[r] = "deleteGetChat"
    /\ \/ LET chat == getChatById(req[r].id)
          IN /\ turn' = [turn EXCEPT ![r].chat = chat]
             /\ IF chat = NoUser THEN Finish(r, "404")
                ELSE IF chat # req[r].user THEN Finish(r, "401")
                ELSE Goto(r, "deleteChat")
       \/ /\ Finish(r, "500")
          /\ UNCHANGED turn
    /\ UNCHANGED <<chats, messages, documents, suggestions, env, req>>

\* lines 870-872
DELETE_deleteChat(r) ==
    /\ pc[r] = "deleteChat"
    /\ \/ /\ chats' = deleteChatById(req[r].id, req[r].user)
          /\ messages' = CascadeMessages(chats')
          /\ turn' = [turn EXCEPT ![r].writes = @ + 1, ![r].deletes = @ + 1]
          /\ Finish(r, "200")
       \/ /\ turn' = [turn EXCEPT ![r].deletes = @ + 1]
          /\ Finish(r, "500")
          /\ UNCHANGED <<chats, messages>>
    /\ UNCHANGED <<documents, suggestions, env, req>>

\* ------------------------------------------------------- documents (gate)
NoDoc == [id |-> NoId, title |-> "", content |-> <<>>, userId |-> NoUser]

\* getDocumentById: the row of that id, null (NoDoc) when there is none
getDocumentById(id) ==
    IF \E d \in documents : d.id = id
    THEN CHOOSE d \in documents : d.id = id
    ELSE NoDoc

\* saveDocument: the row of that id now holds this title and content
saveDocument(id, title, content, userId) ==
    {d \in documents : d.id # id} \cup
        {[id |-> id, title |-> title, content |-> content, userId |-> userId]}

\* saveSuggestions inserts the whole batch
saveSuggestions(rows) == suggestions \o rows

\* ------------------------------------------------------ streamText: a step
Texts == {"t"}

\* what the model may ask for: the four tools of the tools option
DocRequests ==
    {[toolName |-> "createDocument", title |-> t, id |-> NoId] : t \in Titles}
    \cup {[toolName |-> n, title |-> "", id |-> d] :
            n \in {"updateDocument", "requestSuggestions"}, d \in DocArgs}

ToolRequests ==
    {request \in {[toolName |-> "getWeather", title |-> "", id |-> NoId]}
                    \cup DocRequests : request.toolName \in env.tools}

Min(a, b) == IF a <= b THEN a ELSE b

CallLists(r) ==
    UNION {[1..n -> ToolRequests] :
             n \in 0..Min(env.calls, env.total - turn[r].toolCalls)}

\* a tool execution the step has dispatched
NewCall(step, k, request) ==
    [toolCallId |-> <<step, k>>, toolName |-> request.toolName,
     title |-> request.title, id |-> request.id,
     pc |-> "start",       \* start, stream, done or threw
     result |-> "none",    \* none, ok (a payload) or error ({error})
     draft |-> <<>>,       \* draftText, or the suggestions array
     parts |-> 0,          \* stream parts consumed so far
     error |-> ""]         \* what made execute throw, when it threw

CallAt(r, k, label) ==
    /\ k \in 1..Len(turn[r].calls)
    /\ turn[r].calls[k].pc = label

\* lines 457-466: new StreamData(), then the streamText call starts
POST_streamText(r) ==
    /\ pc[r] = "streamText"
    /\ turn' = [turn EXCEPT ![r].created = TRUE]
    /\ \/ /\ pc' = [pc EXCEPT ![r] = "generate"]
          /\ outcome' = [outcome EXCEPT ![r] = "stream"]
       \/ Catch(r, ProviderError)
    /\ UNCHANGED <<chats, messages, documents, suggestions, env, req>>

\* one model invocation of the loop: text and the tool calls it requests
streamText_step(r) ==
    /\ pc[r] = "generate"
    /\ \E text \in Texts, list \in CallLists(r) :
          turn' = [turn EXCEPT
              ![r].steps = @ + 1,
              ![r].text = text,
              ![r].toolCalls = @ + Len(list),
              ![r].calls = [k \in 1..Len(list) |-> NewCall(turn[r].steps + 1, k, list[k])]]
    /\ Goto(r, "tools")
    /\ UNCHANGED <<chats, messages, documents, suggestions, env, req>>

\* the response messages of one step: the assistant message with the text and
\* the tool calls, and the tool message with the results that arrived
StepMessages(text, calls) ==
    LET results == SelectSeq(calls, LAMBDA c : c.result # "none")
        assistant ==
            [role |-> "assistant",
             content |-> [kind |-> "parts", parts |->
                <<[type |-> "text", text |-> text]>> \o
                [k \in 1..Len(calls) |->
                    [type |-> "tool-call", toolCallId |-> calls[k].toolCallId,
                     toolName |-> calls[k].toolName]]]]
        tool ==
            [role |-> "tool",
             content |-> [kind |-> "parts", parts |->
                [k \in 1..Len(results) |->
                    [type |-> "tool-result", toolCallId |-> results[k].toolCallId,
                     toolName |-> results[k].toolName]]]]
    IN IF results = <<>> THEN <<assistant>> ELSE <<assistant, tool>>

\* ContinueLoop without the step bound
ContinueLoopUnbounded(steps, calls) ==
    /\ calls # <<>>
    /\ \A k \in 1..Len(calls) : calls[k].result # "none"

\* maxSteps: 5 -- another step follows only when this one called tools, every
\* call has its result and the step count is below the bound
ContinueLoop(steps, calls) ==
    /\ calls # <<>>
    /\ \A k \in 1..Len(calls) : calls[k].result # "none"
    /\ steps < maxSteps

\* streamText_stepFinish that ends the loop without calling onFinish
streamText_stepFinishSilent(r) ==
    /\ pc[r] = "tools"
    /\ \A k \in 1..Len(turn[r].calls) : turn[r].calls[k].pc \in {"done", "threw"}
    /\ turn' = [turn EXCEPT
          ![r].response = @ \o StepMessages(turn[r].text, turn[r].calls),
          ![r].calls = <<>>,
          ![r].text = ""]
    /\ IF ContinueLoop(turn[r].steps, turn[r].calls)
       THEN Goto(r, "generate")
       ELSE Goto(r, "ended")
    /\ UNCHANGED <<chats, messages, documents, suggestions, env, req>>

\* the step ends when its tool executions have all settled
streamText_stepFinish(r) ==
    /\ pc[r] = "tools"
    /\ \A k \in 1..Len(turn[r].calls) : turn[r].calls[k].pc \in {"done", "threw"}
    /\ turn' = [turn EXCEPT
          ![r].response = @ \o StepMessages(turn[r].text, turn[r].calls),
          ![r].calls = <<>>,
          ![r].text = ""]
    /\ IF ContinueLoop(turn[r].steps, turn[r].calls)
       THEN Goto(r, "generate")
       ELSE Goto(r, "onFinish")
    /\ UNCHANGED <<chats, messages, documents, suggestions, env, req>>

\* the provider fails in mid-stream or the client goes away: the stream ends
\* without onFinish
streamText_abort(r) ==
    /\ pc[r] \in {"generate", "tools"}
    /\ Goto(r, "aborted")
    /\ UNCHANGED <<chats, messages, documents, suggestions, env, req, turn>>

\* ------------------------------------------------------------------ tools
\* Append1 that puts the new events in front of what StreamData holds
Prepend1(r, k, call, events) ==
    turn' = [turn EXCEPT ![r].calls[k] = call, ![r].stream = events \o @]

Append1(r, k, call, events) ==
    turn' = [turn EXCEPT ![r].calls[k] = call, ![r].stream = @ \o events]

DataEvent(type, id, text, src) ==
    Event("data", type, [id |-> id, text |-> text], src)

\* getWeather_execute that also hands the payload to StreamData
getWeather_executeEmitting(r, k) ==
    /\ CallAt(r, k, "start")
    /\ turn[r].calls[k].toolName = "getWeather"
    /\ \E ok \in BOOLEAN :
          Append1(r, k,
              [turn[r].calls[k] EXCEPT
                  !.pc = IF ok THEN "done" ELSE "threw",
                  !.result = IF ok THEN "ok" ELSE "none",
                  !.error = IF ok THEN "" ELSE ProviderError],
              IF ok THEN <<DataEvent("weather", NoId, "", turn[r].calls[k].toolCallId)>>
              ELSE <<>>)
    /\ UNCHANGED <<chats, messages, documents, suggestions, env, pc, req, outcome>>

\* lines 474-481: fetch, then response.json()
getWeather_execute(r, k) ==
    /\ CallAt(r, k, "start")
    /\ turn[r].calls[k].toolName = "getWeather"
    /\ \E ok \in BOOLEAN :
          Append1(r, k,
              [turn[r].calls[k] EXCEPT
                  !.pc = IF ok THEN "done" ELSE "threw",
                  !.result = IF ok THEN "ok" ELSE "none",
                  !.error = IF ok THEN "" ELSE ProviderError],
              <<>>)
    /\ UNCHANGED <<chats, messages, documents, suggestions, env, pc, req, outcome>>

\* lines 490-504
createDocument_start(r, k) ==
    /\ CallAt(r, k, "start")
    /\ turn[r].calls[k].toolName = "createDocument"
    /\ LET call == turn[r].calls[k]
           id == generateUUID(r, 1)
           src == call.toolCallId
       IN \E ok \in BOOLEAN :
            turn' = [turn EXCEPT
                ![r].ids = @ + 1,
                ![r].calls[k] = [call EXCEPT !.id = id,
                                             !.pc = IF ok THEN "stream" ELSE "threw",
                                             !.error = IF ok THEN "" ELSE ProviderError],
                ![r].stream = @ \o <<DataEvent("id", id, "", src),
                                     DataEvent("title", NoId, call.title, src),
                                     DataEvent("clear", NoId, "", src)>>]
    /\ UNCHANGED <<chats, messages, documents, suggestions, env, pc, req, outcome>>

\* the i-th part of a nested generation: text-deltas with another part
\* between them
StreamPart(i) ==
    IF i % 3 = 1 THEN "a" ELSE IF i % 3 = 2 THEN "step-finish" ELSE "b"

\* DeltaLoop that accumulates draftText without streaming the deltas
DeltaLoopSilent(r, k) ==
    LET call == turn[r].calls[k]
        part == StreamPart(call.parts + 1)
    IN /\ call.parts < MaxParts
       /\ \/ IF part \in Deltas
               THEN Append1(r, k,
                       [call EXCEPT !.parts = @ + 1, !.draft = Append(@, part)],
                       <<>>)
               ELSE Append1(r, k, [call EXCEPT !.parts = @ + 1], <<>>)
          \/ Append1(r, k, [call EXCEPT !.pc = "threw", !.error = ProviderError], <<>>)

\* DeltaLoop that accumulates every part of fullStream in draftText
DeltaLoopAllParts(r, k) ==
    LET call == turn[r].calls[k]
        part == StreamPart(call.parts + 1)
    IN /\ call.parts < MaxParts
       /\ \/ Append1(r, k,
                [call EXCEPT !.parts = @ + 1, !.draft = Append(@, part)],
                IF part \in Deltas
                THEN <<DataEvent("text-delta", NoId, part, call.toolCallId)>>
                ELSE <<>>)
          \/ Append1(r, k, [call EXCEPT !.pc = "threw", !.error = ProviderError], <<>>)

\* the for-await loop over fullStream: text-delta parts are appended to
\* draftText and to StreamData, other parts are skipped
DeltaLoop(r, k) ==
    LET call == turn[r].calls[k]
        part == StreamPart(call.parts + 1)
    IN /\ call.parts < MaxParts
       /\ \/ IF part \in Deltas
               THEN Append1(r, k,
                       [call EXCEPT !.parts = @ + 1, !.draft = Append(@, part)],
                       <<DataEvent("text-delta", NoId, part, call.toolCallId)>>)
               ELSE Append1(r, k, [call EXCEPT !.parts = @ + 1], <<>>)
          \/ Append1(r, k, [call EXCEPT !.pc = "threw", !.error = ProviderError], <<>>)

\* FinishAndSave that appends the draft to the content the row already has
FinishAndSaveMerged(r, k, title) ==
    LET call == turn[r].calls[k]
        finish == <<DataEvent("finish", NoId, "", call.toolCallId)>>
        merged == getDocumentById(call.id).content \o call.draft
    IN \/ /\ documents' = saveDocument(call.id, title, merged, req[r].user)
          /\ turn' = [turn EXCEPT
                ![r].calls[k] = [call EXCEPT !.pc = "done", !.result = "ok"],
                ![r].stream = @ \o finish,
                ![r].writes = @ + 1]
       \/ /\ Append1(r, k, [call EXCEPT !.pc = "threw", !.error = StoreError], finish)
          /\ UNCHANGED documents

\* finish, then saveDocument, then the confirmation payload
FinishAndSave(r, k, title) ==
    LET call == turn[r].calls[k]
        finish == <<DataEvent("finish", NoId, "", call.toolCallId)>>
    IN \/ /\ documents' = saveDocument(call.id, title, call.draft, req[r].user)
          /\ turn' = [turn EXCEPT
                ![r].calls[k] = [call EXCEPT !.pc = "done", !.result = "ok"],
                ![r].stream = @ \o finish,
                ![r].writes = @ + 1]
       \/ /\ Append1(r, k, [call EXCEPT !.pc = "threw", !.error = StoreError], finish)
          /\ UNCHANGED documents

\* lines 507-518
createDocument_delta(r, k) ==
    /\ CallAt(r, k, "stream")
    /\ turn[r].calls[k].toolName = "createDocument"
    /\ DeltaLoop(r, k)
    /\ UNCHANGED <<chats, messages, documents, suggestions, env, pc, req, outcome>>

\* lines 565-581
createDocument_save(r, k) ==
    /\ CallAt(r, k, "stream")
    /\ turn[r].calls[k].toolName = "createDocument"
    /\ FinishAndSave(r, k, turn[r].calls[k].title)
    /\ UNCHANGED <<chats, messages, suggestions, env, pc, req, outcome>>

\* lines 595-632
updateDocument_start(r, k) ==
    /\ CallAt(r, k, "start")
    /\ turn[r].calls[k].toolName = "updateDocument"
    /\ LET call == turn[r].calls[k]
           document == getDocumentById(call.id)
       IN IF document = NoDoc
          THEN Append1(r, k, [call EXCEPT !.pc = "done", !.result = "error"], <<>>)
          ELSE \E ok \in BOOLEAN :
                 Append1(r, k,
                     [call EXCEPT !.title = document.title,
                                  !.pc = IF ok THEN "stream" ELSE "threw",
                                  !.error = IF ok THEN "" ELSE ProviderError],
                     <<DataEvent("clear", NoId, document.title, call.toolCallId)>>)
    /\ UNCHANGED <<chats, messages, documents, suggestions, env, pc, req, outcome>>

\* lines 635-647
updateDocument_delta(r, k) ==
    /\ CallAt(r, k, "stream")
    /\ turn[r].calls[k].toolName = "updateDocument"
    /\ DeltaLoop(r, k)
    /\ UNCHANGED <<chats, messages, documents, suggestions, env, pc, req, outcome>>

\* lines 650-665
updateDocument_save(r, k) ==
    /\ CallAt(r, k, "stream")
    /\ turn[r].calls[k].toolName = "updateDocument"
    /\ FinishAndSave(r, k, turn[r].calls[k].title)
    /\ UNCHANGED <<chats, messages, suggestions, env, pc, req, outcome>>

\* requestSuggestions_start that tests the document only, not its content
requestSuggestions_startNoContentCheck(r, k) ==
    /\ CallAt(r, k, "start")
    /\ turn[r].calls[k].toolName = "requestSuggestions"
    /\ LET call == turn[r].calls[k]
           document == getDocumentById(call.id)
       IN IF document = NoDoc
          THEN Append1(r, k, [call EXCEPT !.pc = "done", !.result = "error"], <<>>)
          ELSE \E ok \in BOOLEAN :
                 Append1(r, k,
                     [call EXCEPT !.title = document.title,
                                  !.pc = IF ok THEN "stream" ELSE "threw",
                                  !.error = IF ok THEN "" ELSE ProviderError],
                     <<>>)
    /\ UNCHANGED <<chats, messages, documents, suggestions, env, pc, req, outcome>>

\* lines 678-712
requestSuggestions_start(r, k) ==
    /\ CallAt(r, k, "start")
    /\ turn[r].calls[k].toolName = "requestSuggestions"
    /\ LET call == turn[r].calls[k]
           document == getDocumentById(call.id)
       IN IF document = NoDoc \/ document.content = <<>>
          THEN Append1(r, k, [call EXCEPT !.pc = "done", !.result = "error"], <<>>)
          ELSE \E ok \in BOOLEAN :
                 Append1(r, k,
                     [call EXCEPT !.title = document.title,
                                  !.pc = IF ok THEN "stream" ELSE "threw",
                                  !.error = IF ok THEN "" ELSE ProviderError],
                     <<>>)
    /\ UNCHANGED <<chats, messages, documents, suggestions, env, pc, req, outcome>>

\* requestSuggestions_element that saves each suggestion as it is produced
requestSuggestions_elementSaved(r, k) ==
    /\ CallAt(r, k, "stream")
    /\ turn[r].calls[k].toolName = "requestSuggestions"
    /\ LET call == turn[r].calls[k]
       IN /\ call.parts < env.elems
          /\ \/ LET element == IF call.parts % 2 = 0 THEN "a" ELSE "b"
                      suggestion ==
                        [id |-> generateUUID(r, 1), documentId |-> call.id,
                         originalText |-> element, isResolved |-> FALSE]
                  IN /\ turn' = [turn EXCEPT
                           ![r].ids = @ + 1,
                           ![r].calls[k] = [call EXCEPT !.parts = @ + 1,
                                                        !.draft = Append(@, suggestion)],
                           ![r].stream = Append(@,
                               Event("data", "suggestion", suggestion, call.toolCallId))]
                     /\ suggestions' = saveSuggestions(
                           <<[id |-> suggestion.id, documentId |-> call.id,
                              originalText |-> element, isResolved |-> FALSE,
                              userId |-> req[r].user]>>)
             \/ /\ Append1(r, k, [call EXCEPT !.pc = "threw", !.error = ProviderError], <<>>)
                /\ UNCHANGED suggestions
    /\ UNCHANGED <<chats, messages, documents, env, pc, req, outcome>>

\* lines 715-731: one element of elementStream
requestSuggestions_element(r, k) ==
    /\ CallAt(r, k, "stream")
    /\ turn[r].calls[k].toolName = "requestSuggestions"
    /\ LET call == turn[r].calls[k]
       IN /\ call.parts < env.elems
          /\ \/ LET element == IF call.parts % 2 = 0 THEN "a" ELSE "b"
                      suggestion ==
                        [id |-> generateUUID(r, 1), documentId |-> call.id,
                         originalText |-> element, isResolved |-> FALSE]
                  IN turn' = [turn EXCEPT
                        ![r].ids = @ + 1,
                        ![r].calls[k] = [call EXCEPT !.parts = @ + 1,
                                                     !.draft = Append(@, suggestion)],
                        ![r].stream = Append(@,
                            Event("data", "suggestion", suggestion, call.toolCallId))]
             \/ Append1(r, k, [call EXCEPT !.pc = "threw", !.error = ProviderError], <<>>)
    /\ UNCHANGED <<chats, messages, documents, suggestions, env, pc, req, outcome>>

\* lines 734-765
requestSuggestions_save(r, k) ==
    /\ CallAt(r, k, "stream")
    /\ turn[r].calls[k].toolName = "requestSuggestions"
    /\ LET call == turn[r].calls[k]
           rows == [i \in 1..Len(call.draft) |->
                      [id |-> call.draft[i].id,
                       documentId |-> call.draft[i].documentId,
                       originalText |-> call.draft[i].originalText,
                       isResolved |-> call.draft[i].isResolved,
                       userId |-> req[r].user]]
       IN \/ /\ suggestions' = saveSuggestions(rows)
             /\ turn' = [turn EXCEPT
                   ![r].calls[k] = [call EXCEPT !.pc = "done", !.result = "ok"],
                   ![r].writes = @ + 1]
          \/ /\ Append1(r, k, [call EXCEPT !.pc = "threw", !.error = StoreError], <<>>)
             /\ UNCHANGED suggestions
    /\ UNCHANGED <<chats, messages, documents, env, pc, req, outcome>>

\* --------------------------------------------------------------- onFinish
\* sanitizeResponseMessages: a tool-call part stays only when a tool-result
\* of the same toolCallId is among the messages; a message left without
\* content is dropped
sanitizeResponseMessages(msgs) ==
    LET toolResultIds ==
            UNION {{p.toolCallId : p \in {q \in Range(msgs[i].content.parts) :
                                            q.type = "tool-result"}} :
                   i \in {x \in 1..Len(msgs) : msgs[x].role = "tool"}}
        Keep(p) == p.type = "tool-call" => p.toolCallId \in toolResultIds
        sanitized ==
            [i \in 1..Len(msgs) |->
                IF msgs[i].role # "assistant" THEN msgs[i]
                ELSE [msgs[i] EXCEPT !.content.parts = SelectSeq(@, Keep)]]
    IN SelectSeq(sanitized, LAMBDA m : Len(m.content.parts) > 0)

\* the response messages as the loop left them, not sanitized
responseMessagesUnsanitized(r) == turn[r].response

\* lines 774-775
responseMessagesWithoutIncompleteToolCalls(r) ==
    sanitizeResponseMessages(turn[r].response)

\* ResponseRows with generateUUID called once, outside the map
ResponseRowsSameId(r, msgs) ==
    [i \in 1..Len(msgs) |->
        [id |-> generateUUID(r, 1), chat_id |-> req[r].id,
         role |-> msgs[i].role, content |-> formatMessageContent(msgs[i])]]

\* ResponseRows over the user message and the response messages together
ResponseRowsWithUser(r, msgs) ==
    LET all == <<req[r].userMessage>> \o msgs
    IN [i \in 1..Len(all) |->
          [id |-> generateUUID(r, i), chat_id |-> req[r].id,
           role |-> all[i].role, content |-> formatMessageContent(all[i])]]

\* lines 780-798: the rows of the response save, each with a fresh id
ResponseRows(r, msgs) ==
    [i \in 1..Len(msgs) |->
        [id |-> generateUUID(r, i), chat_id |-> req[r].id,
         role |-> msgs[i].role, content |-> formatMessageContent(msgs[i])]]

\* lines 791-798: the row built for one message, formatMessageContent applied
\* to it
formatMessageContent_apply(r) ==
    /\ pc[r] = "format"
    /\ messages' = messages \o ResponseRows(r, turn[r].response)
    /\ pc' = [pc EXCEPT ![r] = "formatted"]
    /\ UNCHANGED <<chats, documents, suggestions, env, req, outcome, turn>>

\* Annotations without the role test: one annotation per row
AnnotationsEveryRow(rows) ==
    [i \in 1..Len(rows) |->
        Event("annotation", "message-annotation",
              [id |-> rows[i].id, text |-> ""], NoId)]

\* lines 785-789: appendMessageAnnotation for the assistant messages
Annotations(rows) ==
    LET assistant == SelectSeq(rows, LAMBDA row : row.role = "assistant")
    IN [i \in 1..Len(assistant) |->
          Event("annotation", "message-annotation",
                [id |-> assistant[i].id, text |-> ""], NoId)]

CloseEvent == Event("close", "close", [id |-> NoId, text |-> ""], NoId)

\* onFinishStream with close() called before the save instead of after it
onFinishStreamClosedFirst(stream, rows) ==
    Append(stream, CloseEvent) \o Annotations(rows)

\* what onFinish has handed to StreamData when it reaches its last line
onFinishStream(stream, rows) == stream \o Annotations(rows)

\* POST_onFinish without the try/catch around the save: a failed save ends
\* the callback before close()
POST_onFinishUncaught(r) ==
    /\ pc[r] = "onFinish"
    /\ LET rows == ResponseRows(r, responseMessagesWithoutIncompleteToolCalls(r))
       IN \/ /\ ChatRowExists(req[r].id)
             /\ messages' = saveMessages(req[r].id, rows)
             /\ turn' = [turn EXCEPT
                   ![r].ids = @ + Len(rows),
                   ![r].stream = onFinishStream(@, rows),
                   ![r].writes = @ + 1,
                   ![r].saved = "ok"]
             /\ Goto(r, "close")
          \/ /\ turn' = [turn EXCEPT
                   ![r].ids = @ + Len(rows),
                   ![r].stream = onFinishStream(@, rows),
                   ![r].saved = "failed"]
             /\ Goto(r, "aborted")
             /\ UNCHANGED messages
    /\ UNCHANGED <<chats, documents, suggestions, env, req>>

\* lines 770-803: sanitize, annotate, save; a failed save is logged only
POST_onFinish(r) ==
    /\ pc[r] = "onFinish"
    /\ LET rows == ResponseRows(r, responseMessagesWithoutIncompleteToolCalls(r))
       IN \/ /\ ChatRowExists(req[r].id)
             /\ messages' = saveMessages(req[r].id, rows)
             /\ turn' = [turn EXCEPT
                   ![r].ids = @ + Len(rows),
                   ![r].stream = onFinishStream(@, rows),
                   ![r].writes = @ + 1,
                   ![r].saved = "ok"]
          \/ /\ turn' = [turn EXCEPT
                   ![r].ids = @ + Len(rows),
                   ![r].stream = onFinishStream(@, rows),
                   ![r].saved = "failed"]
             /\ UNCHANGED messages
    /\ Goto(r, "close")
    /\ UNCHANGED <<chats, documents, suggestions, env, req>>

\* line 807
POST_close(r) ==
    /\ pc[r] = "close"
    /\ turn' = [turn EXCEPT ![r].stream = Append(@, CloseEvent)]
    /\ pc' = [pc EXCEPT ![r] = "done"]
    /\ UNCHANGED <<chats, messages, documents, suggestions, env, req, outcome>>

\* ------------------------------------------------------------------- Next
Handlers(r) ==
    \/ POST_validate(r)
    \/ POST_getChat(r)
    \/ POST_generateTitle(r)
    \/ POST_saveChat(r)
    \/ POST_saveUserMessage(r)
    \/ POST_catchSave(r)
    \/ POST_streamText(r)
    \/ streamText_step(r)
    \/ streamText_stepFinish(r)
    \/ streamText_abort(r)
    \/ POST_onFinish(r)
    \/ POST_close(r)
    \/ DELETE_begin(r)
    \/ DELETE_getChat(r)
    \/ DELETE_deleteChat(r)

Tools(r, k) ==
    \/ getWeather_execute(r, k)
    \/ createDocument_start(r, k)
    \/ createDocument_delta(r, k)
    \/ createDocument_save(r, k)
    \/ updateDocument_start(r, k)
    \/ updateDocument_delta(r, k)
    \/ updateDocument_save(r, k)
    \/ requestSuggestions_start(r, k)
    \/ requestSuggestions_element(r, k)
    \/ requestSuggestions_save(r, k)

Next ==
    \/ \E r \in Reqs : Handlers(r)
    \/ \E r \in Reqs, k \in 1..MaxCalls : Tools(r, k)
    \/ Other_saveChat

NextLoop ==
    \/ \E r \in Reqs : Handlers(r)
    \/ \E r \in Reqs, k \in 1..MaxCalls : getWeather_execute(r, k)
    \/ Other_saveChat

NextRace == \E r \in Reqs : Handlers(r)

Spec == Init /\ [][Next]_vars

SpecLoop == InitLoop /\ [][NextLoop]_vars

SpecRace == InitRace /\ [][NextRace]_vars

\* every model invocation and every tool execution that has started comes to
\* its end, and the callbacks that are due are run
LoopFairness ==
    /\ WF_vars(\E r \in Reqs : streamText_step(r) \/ streamText_stepFinish(r))
    /\ WF_vars(\E r \in Reqs, k \in 1..MaxCalls : getWeather_execute(r, k))
    /\ WF_vars(\E r \in Reqs : POST_onFinish(r) \/ POST_close(r))

SpecLoopFair == InitLoopFair /\ [][NextLoop]_vars /\ LoopFairness

NextSuggest ==
    \/ \E r \in Reqs : Handlers(r)
    \/ \E r \in Reqs, k \in 1..MaxCalls :
          \/ requestSuggestions_start(r, k)
          \/ requestSuggestions_element(r, k)
          \/ requestSuggestions_save(r, k)
    \/ Other_saveChat

SpecSuggest == InitSuggest /\ [][NextSuggest]_vars

NextTools ==
    \/ \E r \in Reqs : Handlers(r)
    \/ \E r \in Reqs, k \in 1..MaxCalls :
          \/ createDocument_start(r, k)
          \/ createDocument_delta(r, k)
          \/ createDocument_save(r, k)
          \/ updateDocument_start(r, k)
          \/ updateDocument_delta(r, k)
          \/ updateDocument_save(r, k)
    \/ Other_saveChat

SpecTools == InitTools /\ [][NextTools]_vars

NextCodec == \E r \in Reqs : formatMessageContent_apply(r)

SpecCodec == InitCodec /\ [][NextCodec]_vars

\* ----------------------------------------------------------------- claims
IsPost(r) == req[r].kind = "POST"

Stream(r) == turn[r].stream

Closes(r) == Cardinality({i \in 1..Len(Stream(r)) : Stream(r)[i].ch = "close"})

\* the rows of the messages table that request r inserted
RowsOf(r) == {i \in 1..Len(messages) : messages[i].id[1] = r}

Parts(row) == IF row.content.kind = "json" THEN Range(row.content.parts) ELSE {}

\* C1: every POST that constructed its StreamData and has ended (returned,
\* thrown, or had its stream cut) has called close() exactly once.
C1_CloseExactlyOnce ==
    \A r \in Reqs :
        (IsPost(r) /\ turn[r].created /\ pc[r] \in {"done", "aborted"})
            => Closes(r) = 1

\* C2: nothing is appended to StreamData after close(), and when close() has
\* run no tool execution of the turn is still under way.
C2_NoAppendAfterClose ==
    \A r \in Reqs : \A i \in 1..Len(Stream(r)) :
        Stream(r)[i].ch = "close" =>
            /\ i = Len(Stream(r))
            /\ \A k \in 1..Len(turn[r].calls) :
                  turn[r].calls[k].pc \in {"done", "threw"}

C2_Witness ==
    \E r \in Reqs :
        /\ pc[r] = "done"
        /\ \E i \in 1..Len(Stream(r)) : Stream(r)[i].type = "finish"
        /\ \E i \in 1..Len(Stream(r)) : Stream(r)[i].ch = "annotation"
        /\ Last(Stream(r)).ch = "close"

\* C3: a step of a request whose caller is not the owner of the chat it
\* names changes neither the chats table nor the messages table.
C3_NonOwnerNeverWrites ==
    [][\A r \in Reqs :
          (/\ pc'[r] # pc[r]
           /\ req[r].kind \in {"POST", "DELETE"}
           /\ req[r].id \in ChatIds
           /\ chats[req[r].id] \notin {NoUser, req[r].user})
          => (chats' = chats /\ messages' = messages)]_vars

\* C4: after saveChat failed with the chat-id conflict the handler never
\* throws the conflict: it runs the second save of the user message, and when
\* that save succeeds the row is in the messages table and the handler ends
\* without an error.
C4_ConflictRecovered ==
    /\ [](\A r \in Reqs :
            turn[r].conflict =>
                /\ pc[r] \in {"catchSave", "done"}
                /\ pc[r] = "done" =>
                      \/ outcome[r] = "none" /\ turn[r].userSaves = 1
                      \/ /\ outcome[r] = "thrown"
                         /\ turn[r].userSaves = 0
                         /\ turn[r].ids = 1)
    /\ [][\A r \in Reqs :
            (pc[r] = "catchSave" /\ pc'[r] = "done" /\ outcome'[r] = "none")
            => /\ messages' # <<>>
               /\ Last(messages').id[1] = r
               /\ Last(messages').role = "user"
               /\ Last(messages').chat_id = req[r].id
               /\ chats'[req[r].id] # NoUser
               /\ chats' = chats]_vars

C4_Witness ==
    \E r \in Reqs :
        /\ turn[r].conflict
        /\ pc[r] = "done"
        /\ outcome[r] = "none"
        /\ \E i \in RowsOf(r) : messages[i].role = "user"

\* C5: a POST of an authenticated caller that names an unknown model ends
\* with 404, and one with a known model and no user message ends with 400;
\* neither has called the model, constructed StreamData or written a row.
C5_ValidationFailsFast ==
    \A r \in Reqs :
        (IsPost(r) /\ req[r].user # NoUser) =>
            LET untouched ==
                  /\ pc[r] = "done"
                  /\ turn[r].steps = 0
                  /\ ~turn[r].created
                  /\ turn[r].writes = 0
                  /\ RowsOf(r) = {}
            IN /\ req[r].modelId \notin models
                    => (outcome[r] = "404" /\ untouched)
               /\ (req[r].modelId \in models /\ req[r].userMessage = NoMessage)
                    => (outcome[r] = "400" /\ untouched)

C5_Witness ==
    \E r1, r2 \in Reqs :
        /\ IsPost(r1) /\ outcome[r1] = "404" /\ req[r1].userMessage # NoMessage
        /\ IsPost(r2) /\ outcome[r2] = "400"

\* C6: a POST whose chat lookup returned a chat of another user ends with
\* 401 without having written a row or called the model.
C6_ForeignChatRejected ==
    \A r \in Reqs :
        (IsPost(r) /\ turn[r].chat \notin {"unread", NoUser, req[r].user}) =>
            /\ pc[r] = "done"
            /\ outcome[r] = "401"
            /\ turn[r].steps = 0
            /\ ~turn[r].created
            /\ turn[r].writes = 0
            /\ turn[r].userSaves = 0
            /\ RowsOf(r) = {}

C6_Witness ==
    \E r \in Reqs :
        /\ IsPost(r)
        /\ turn[r].chat \in Users \ {req[r].user}
        /\ outcome[r] = "401"

\* C7: the model is invoked only after the user message row was inserted,
\* and no step of a turn takes a message row away: a row leaves the table
\* only together with its chat row, in a DELETE.
C7_UserMessageDurable ==
    /\ [](\A r \in Reqs :
            (turn[r].created \/ turn[r].steps > 0) => turn[r].userSaves = 1)
    /\ [][\A i \in 1..Len(messages) :
            \/ \E j \in 1..Len(messages') : messages'[j] = messages[i]
            \/ /\ chats[messages[i].chat_id] # NoUser
               /\ chats'[messages[i].chat_id] = NoUser]_vars

C7_Witness ==
    \E r \in Reqs :
        /\ pc[r] = "aborted"
        /\ turn[r].steps > 0
        /\ \E k \in 1..Len(turn[r].calls) : turn[r].calls[k].pc = "threw"
        /\ \E i \in RowsOf(r) : messages[i].role = "user"

\* C8: one turn invokes the model at most 5 times.
C8_StepBound ==
    \A r \in Reqs : turn[r].steps <= 5

C8_Witness ==
    \E r \in Reqs :
        /\ pc[r] = "onFinish"
        /\ turn[r].steps = 5
        /\ Last(turn[r].response).role = "tool"
        /\ Len(Last(turn[r].response).content.parts) = MaxCalls

\* C9: every tool-call part in a message row of a turn has a tool-result
\* part of the same toolCallId in a row of the same turn and chat.
C9_NoDanglingToolCall ==
    \A r \in Reqs : \A i \in RowsOf(r) : \A p \in Parts(messages[i]) :
        p.type = "tool-call" =>
            \E j \in RowsOf(r) :
                /\ messages[j].chat_id = messages[i].chat_id
                /\ \E q \in Parts(messages[j]) :
                      q.type = "tool-result" /\ q.toolCallId = p.toolCallId

\* the tool calls of the response messages that have no result
Dangling(msgs) ==
    {p.toolCallId : p \in UNION {{q \in Range(msgs[i].content.parts) :
                                     q.type = "tool-call"} : i \in 1..Len(msgs)}}
    \ {p.toolCallId : p \in UNION {{q \in Range(msgs[i].content.parts) :
                                     q.type = "tool-result"} : i \in 1..Len(msgs)}}

C9_Witness ==
    \E r \in Reqs :
        /\ pc[r] = "done"
        /\ Dangling(turn[r].response) # {}
        /\ \E i \in RowsOf(r) : \E p \in Parts(messages[i]) : p.type = "tool-call"

AnnotationsFor(r, id) ==
    {i \in 1..Len(Stream(r)) :
        Stream(r)[i].ch = "annotation" /\ Stream(r)[i].content.id = id}

\* C10: every assistant row a turn saved has exactly one annotation with its
\* id in the turn's StreamData, ahead of the close, and no annotation carries
\* the id of a user or tool row.
C10_OneAnnotationPerAssistantRow ==
    \A r \in Reqs : \A i \in RowsOf(r) :
        IF messages[i].role = "assistant"
        THEN /\ Cardinality(AnnotationsFor(r, messages[i].id)) = 1
             /\ \A a \in AnnotationsFor(r, messages[i].id) :
                   \A c \in 1..Len(Stream(r)) : Stream(r)[c].ch = "close" => a < c
        ELSE AnnotationsFor(r, messages[i].id) = {}

C10_Witness ==
    \E r \in Reqs :
        /\ pc[r] = "done"
        /\ Closes(r) = 1
        /\ \E i, j \in RowsOf(r) :
              messages[i].role = "assistant" /\ messages[j].role = "tool"

\* C11: when the response save of onFinish fails, the failure is swallowed:
\* the step that fails leaves the chats and messages tables as they were,
\* the turn goes on to close() and to its end with the streamed response as
\* its outcome, the stream ends with the one close, and the chat row and the
\* user-message row of this request are still there
C11_ResponseSaveFailureSwallowed ==
    /\ [](\A r \in Reqs :
            turn[r].saved = "failed" =>
                /\ pc[r] \in {"close", "done"}
                /\ outcome[r] = "stream"
                /\ pc[r] = "done" => (Closes(r) = 1 /\ Last(Stream(r)).ch = "close")
                /\ chats[req[r].id] = req[r].user
                /\ \E i \in RowsOf(r) : messages[i] =
                        [UserMessageRow(r) EXCEPT !.id = messages[i].id])
    /\ [][\A r \in Reqs :
            (pc[r] = "onFinish" /\ turn'[r].saved = "failed") =>
                (messages' = messages /\ chats' = chats)]_vars

C11_Witness ==
    \E r \in Reqs :
        /\ turn[r].saved = "failed"
        /\ pc[r] = "done"
        /\ Closes(r) = 1
        /\ \E i \in RowsOf(r) : messages[i].role = "user"

\* the rows of the messages table that belong to a chat, in insertion order
MessagesOfChat(id) == SelectSeq(messages, LAMBDA m : m.chat_id = id)

\* C12: a POST of an authenticated caller with a registered model and a user
\* message, for a chat id that did not exist when it was looked up, answered
\* by the model with text and no tool call, ends with the chat row of that id
\* owned by the caller and exactly two message rows of that chat: the user
\* message first, the assistant message second
C12_NewChatTextTurn ==
    \A r \in Reqs :
        (/\ IsPost(r) /\ pc[r] = "done" /\ outcome[r] = "stream"
         /\ turn[r].chat = NoUser /\ ~turn[r].conflict
         /\ turn[r].steps = 1 /\ turn[r].toolCalls = 0
         /\ turn[r].saved = "ok")
        => /\ chats[req[r].id] = req[r].user
           /\ LET rows == MessagesOfChat(req[r].id)
              IN /\ Len(rows) = 2
                 /\ rows[1].role = "user" /\ rows[2].role = "assistant"
                 /\ rows[1].id # rows[2].id
                 /\ rows[1].content = formatMessageContent(req[r].userMessage)
                 /\ rows[2].content.kind = "json"
                 /\ \A p \in Parts(rows[2]) : p.type = "text"

C12_Witness ==
    \E r \in Reqs :
        /\ IsPost(r) /\ pc[r] = "done" /\ outcome[r] = "stream"
        /\ turn[r].chat = NoUser /\ ~turn[r].conflict
        /\ turn[r].steps = 1 /\ turn[r].toolCalls = 0
        /\ turn[r].saved = "ok"
        /\ req[r].user \in Users
        /\ Len(messages) = 2

\* what one tool execution has handed to StreamData, in order
EventsOf(r, k) ==
    SelectSeq(Stream(r), LAMBDA e : e.ch = "data" /\ e.src = turn[r].calls[k].toolCallId)

CallsOf(name) ==
    {<<r, k>> \in Reqs \X (1..MaxCalls) :
        /\ k \in 1..Len(turn[r].calls)
        /\ turn[r].calls[k].toolName = name}

\* the texts of the text-delta events among some events, in order
DeltasOf(events) ==
    LET deltas == SelectSeq(events, LAMBDA e : e.type = "text-delta")
    IN [i \in 1..Len(deltas) |-> deltas[i].content.text]

\* C13 as stated: a createDocument execution that has returned has emitted
\* id, title (the requested one), clear, one or more text-deltas and finish,
\* in this order, and a Document row with non-empty content owned by the
\* caller exists
C13_CreateDocumentEvents ==
    \A c \in CallsOf("createDocument") :
        LET r == c[1]
            call == turn[r].calls[c[2]]
            ev == EventsOf(r, c[2])
        IN call.pc = "done" =>
            /\ Len(ev) >= 5
            /\ ev[1].type = "id" /\ ev[2].type = "title" /\ ev[3].type = "clear"
            /\ ev[2].content.text = call.title
            /\ \A i \in 4..(Len(ev) - 1) : ev[i].type = "text-delta"
            /\ ev[Len(ev)].type = "finish"
            /\ \E d \in documents :
                  d.id = call.id /\ d.content # <<>> /\ d.userId = req[r].user

\* C13, amended: every createDocument execution emits, in this order, one id
\* event, one title event equal to the requested title and one clear event,
\* then zero or more text-delta events, then at most one finish event; an
\* execution that has returned has emitted the finish event, and the
\* Document row of the generated id then has the requested title, the caller
\* as owner and the concatenation of the emitted deltas as content (empty
\* when no delta was emitted)
C13_CreateDocumentEventsAmended ==
    \A c \in CallsOf("createDocument") :
        LET r == c[1]
            call == turn[r].calls[c[2]]
            ev == EventsOf(r, c[2])
        IN /\ call.pc = "start" => ev = <<>>
           /\ call.pc # "start" =>
                /\ Len(ev) >= 3
                /\ ev[1].type = "id" /\ ev[1].content.id = call.id
                /\ ev[2].type = "title" /\ ev[2].content.text = call.title
                /\ ev[3].type = "clear"
                /\ \A i \in 4..Len(ev) :
                      \/ ev[i].type = "text-delta"
                      \/ ev[i].type = "finish" /\ i = Len(ev)
                /\ DeltasOf(ev) = call.draft
           /\ call.pc = "stream" => \A i \in 1..Len(ev) : ev[i].type # "finish"
           /\ call.pc = "done" =>
                /\ ev[Len(ev)].type = "finish"
                /\ [id |-> call.id, title |-> call.title, content |-> DeltasOf(ev),
                    userId |-> req[r].user] \in documents

C13_Witness ==
    \E c \in CallsOf("createDocument") :
        LET call == turn[c[1]].calls[c[2]]
        IN /\ call.pc = "done"
           /\ Len(call.draft) >= 1
           /\ Len(EventsOf(c[1], c[2])) = 4 + Len(call.draft)

\* C14: an updateDocument execution on an existing document emits one clear
\* event carrying the existing title before any text-delta, then the
\* text-deltas of its draft, then finish; the step that returns leaves one
\* row of the same id whose title is the existing one and whose content is
\* the new draft alone
C14_UpdateDocumentReplaces ==
    /\ [](\A c \in CallsOf("updateDocument") :
            LET r == c[1]
                call == turn[r].calls[c[2]]
                ev == EventsOf(r, c[2])
            IN /\ call.pc = "start" => ev = <<>>
               /\ (call.pc # "start" /\ call.result # "error") =>
                    /\ Len(ev) >= 1
                    /\ ev[1].type = "clear"
                    /\ ev[1].content.text = getDocumentById(call.id).title
                    /\ \A i \in 2..Len(ev) :
                          \/ ev[i].type = "text-delta"
                          \/ ev[i].type = "finish" /\ i = Len(ev)
                    /\ DeltasOf(ev) = call.draft
               /\ call.pc = "stream" => \A i \in 1..Len(ev) : ev[i].type # "finish"
               /\ call.result = "ok" => ev[Len(ev)].type = "finish")
    /\ [][\A c \in CallsOf("updateDocument") :
            LET r == c[1]
                k == c[2]
                old == getDocumentById(turn[r].calls[k].id)
            IN (turn[r].calls[k].pc = "stream" /\ turn'[r].calls[k].pc = "done") =>
                 /\ {d \in documents' : d.id = old.id} =
                        {[id |-> old.id, title |-> old.title,
                          content |-> turn[r].calls[k].draft,
                          userId |-> req[r].user]}
                 /\ {d \in documents' : d.id # old.id} =
                        {d \in documents : d.id # old.id}]_vars

\* the document that held <<"a">> holds the new draft <<"a">>, not <<"a", "a">>
C14_Witness ==
    \E c \in CallsOf("updateDocument") :
        LET call == turn[c[1]].calls[c[2]]
        IN /\ call.pc = "done" /\ call.result = "ok"
           /\ call.id = D1
           /\ Len(call.draft) >= 1
           /\ getDocumentById(D1).content = call.draft
           /\ Len(EventsOf(c[1], c[2])) = 2 + Len(call.draft)

\* C15: one requestSuggestions execution emits at most 5 suggestion events
\* and persists at most 5 suggestion rows, however many elements the nested
\* generation produces
C15_AtMostFiveSuggestions ==
    /\ \A c \in CallsOf("requestSuggestions") :
            /\ Len(EventsOf(c[1], c[2])) <= 5
            /\ Len(turn[c[1]].calls[c[2]].draft) <= 5
    /\ \A r \in Reqs :
            Cardinality({i \in 1..Len(suggestions) : suggestions[i].id[1] = r}) <= 5

\* a suggestion row without the owner the save adds
Emitted(row) ==
    [id |-> row.id, documentId |-> row.documentId,
     originalText |-> row.originalText, isResolved |-> row.isResolved]

\* the persisted suggestions of one execution, in table order
PersistedOf(call) ==
    LET ids == {call.draft[i].id : i \in 1..Len(call.draft)}
        rows == SelectSeq(suggestions, LAMBDA row : row.id \in ids)
    IN [i \in 1..Len(rows) |-> Emitted(rows[i])]

\* C16: a requestSuggestions execution has emitted one suggestion event per
\* element it has consumed, each with isResolved false and in the order of
\* arrival; while the sequence is being consumed none of them is persisted;
\* the suggestions table changes only in the step that ends an execution,
\* by one batch that is the emitted suggestions in emission order
C16_SuggestionsStreamedThenSaved ==
    /\ [](\A c \in CallsOf("requestSuggestions") :
            LET r == c[1]
                call == turn[r].calls[c[2]]
                ev == EventsOf(r, c[2])
            IN /\ Len(ev) = call.parts
               /\ Len(call.draft) = call.parts
               /\ \A i \in 1..Len(ev) :
                     /\ ev[i].type = "suggestion"
                     /\ ev[i].content = call.draft[i]
                     /\ ev[i].content.isResolved = FALSE
                     /\ ev[i].content.documentId = call.id
               /\ call.pc # "done" => PersistedOf(call) = <<>>
               /\ call.result = "ok" => PersistedOf(call) = call.draft)
    /\ [][suggestions' # suggestions =>
            \E c \in CallsOf("requestSuggestions") :
                LET r == c[1]
                    call == turn[r].calls[c[2]]
                IN /\ call.pc = "stream"
                   /\ turn'[r].calls[c[2]].pc = "done"
                   /\ Len(suggestions') = Len(suggestions) + Len(call.draft)
                   /\ \A i \in 1..Len(call.draft) :
                         LET row == suggestions'[Len(suggestions) + i]
                         IN Emitted(row) = call.draft[i] /\ row.userId = req[r].user
                   /\ \A i \in 1..Len(suggestions) : suggestions'[i] = suggestions[i]]_vars

C16_Witness ==
    \E c \in CallsOf("requestSuggestions") :
        LET call == turn[c[1]].calls[c[2]]
        IN /\ call.result = "ok"
           /\ Len(call.draft) >= 2
           /\ Len(EventsOf(c[1], c[2])) = Len(call.draft)
           /\ Len(suggestions) = Len(call.draft)

\* the document a call names is one its tool refuses: none of that id, or,
\* for requestSuggestions, one whose content is empty
Refused(call) ==
    LET document == getDocumentById(call.id)
    IN \/ call.toolName = "updateDocument" /\ document = NoDoc
       \/ call.toolName = "requestSuggestions"
            /\ (document = NoDoc \/ document.content = <<>>)

\* C17: updateDocument with the id of no document, and requestSuggestions
\* with the id of no document or of a document whose content is empty,
\* return the tagged error result in one step that emits no event, starts
\* no nested generation and writes to no table; an execution that returned
\* the error result has emitted nothing and consumed no stream part
C17_MissingDocumentIsErrorResult ==
    /\ [](\A c \in CallsOf("updateDocument") \cup CallsOf("requestSuggestions") :
            LET call == turn[c[1]].calls[c[2]]
            IN /\ call.result = "error" =>
                    /\ call.pc = "done"
                    /\ EventsOf(c[1], c[2]) = <<>>
                    /\ call.parts = 0 /\ call.draft = <<>>
               /\ (call.id = Missing /\ call.pc # "start") => call.result = "error")
    /\ [][\A c \in CallsOf("updateDocument") \cup CallsOf("requestSuggestions") :
            LET r == c[1]
                k == c[2]
            IN (/\ turn[r].calls[k].pc = "start"
                /\ Refused(turn[r].calls[k])
                /\ turn'[r].calls[k].pc # "start")
               => /\ turn'[r].calls[k].pc = "done"
                  /\ turn'[r].calls[k].result = "error"
                  /\ turn'[r].calls[k].parts = 0
                  /\ turn'[r].stream = turn[r].stream
                  /\ turn'[r].writes = turn[r].writes
                  /\ UNCHANGED <<chats, messages, documents, suggestions>>]_vars

\* requestSuggestions has refused the document without content
C17_Witness ==
    \E c \in CallsOf("requestSuggestions") :
        LET call == turn[c[1]].calls[c[2]]
        IN /\ call.id = D0
           /\ call.result = "error"
           /\ getDocumentById(D0).content = <<>>
           /\ Stream(c[1]) = <<>>

\* C18: a provider failure inside a tool execution (the weather fetch, the
\* nested generation of createDocument, updateDocument or requestSuggestions)
\* does not make execute throw: the execution returns the error result
C18_ProviderFailureIsErrorResult ==
    \A r \in Reqs : \A k \in 1..Len(turn[r].calls) :
        turn[r].calls[k].error = ProviderError =>
            (turn[r].calls[k].pc = "done" /\ turn[r].calls[k].result = "error")

IsDelete(r) == req[r].kind = "DELETE"

\* C19: a DELETE without the id parameter ends with 404; a DELETE of an
\* authenticated caller ends with 404 when getChatById found no chat, with
\* 401 when it found a chat of another user, and with 200 only after
\* deleteChatById has removed the caller's chat; deleteChatById is invoked
\* only when the chat found is the caller's, and at most once
C19_DeleteStatuses ==
    /\ [](\A r \in Reqs : IsDelete(r) =>
            /\ turn[r].deletes <= 1
            /\ turn[r].deletes = 1 => turn[r].chat = req[r].user
            /\ pc[r] = "deleteChat" => turn[r].chat = req[r].user
            /\ pc[r] = "done" =>
                 /\ req[r].id = NoChat => (outcome[r] = "404" /\ turn[r].deletes = 0)
                 /\ turn[r].chat = NoUser => (outcome[r] = "404" /\ turn[r].deletes = 0)
                 /\ turn[r].chat \in Users \ {req[r].user} =>
                        (outcome[r] = "401" /\ turn[r].deletes = 0)
                 /\ outcome[r] = "200" =>
                        (turn[r].chat = req[r].user /\ turn[r].deletes = 1)
                 /\ outcome[r] = "401" => turn[r].chat \in Users \ {req[r].user}
                 /\ outcome[r] = "404" => (req[r].id = NoChat \/ turn[r].chat = NoUser))
    /\ [][\A r \in Reqs :
            (IsDelete(r) /\ outcome[r] # "200" /\ outcome'[r] = "200") =>
                /\ pc[r] = "deleteChat"
                /\ chats'[req[r].id] # req[r].user
                /\ chats[req[r].id] = req[r].user =>
                      (chats'[req[r].id] = NoUser
                       /\ \A i \in 1..Len(messages') : messages'[i].chat_id # req[r].id)]_vars

C19_Witness ==
    \E r \in Reqs :
        /\ IsDelete(r) /\ pc[r] = "done" /\ outcome[r] = "200"
        /\ turn[r].deletes = 1
        /\ chats[req[r].id] = NoUser
        /\ messages = <<>>

\* C20: a POST, or a DELETE that names a chat id, made without a valid
\* session ends with a 401 response, and it has written and deleted nothing
C20_NoSessionIs401 ==
    \A r \in Reqs :
        (/\ IsPost(r) \/ (IsDelete(r) /\ req[r].id # NoChat)
         /\ req[r].user = NoUser
         /\ pc[r] = "done")
        => /\ outcome[r] = "401"
           /\ turn[r].writes = 0 /\ turn[r].deletes = 0

\* C21: an unexpected failure during a POST or a DELETE of an authenticated
\* caller, other than the chat-id conflict, is answered with a 500 response:
\* such a request never ends with the handler throwing
C21_UnexpectedFailureIs500 ==
    \A r \in Reqs :
        (/\ IsPost(r) \/ IsDelete(r)
         /\ req[r].user \in Users
         /\ ~turn[r].conflict
         /\ pc[r] = "done")
        => outcome[r] # "thrown"

\* the message formatMessageContent was applied to, and what it returned
Formatted(r) == pc[r] = "formatted"

Input(r) == turn[r].response[1]

Output(r) == Last(messages).content

\* C22: for an assistant message whose content is a sequence of N text and
\* tool-call parts, formatMessageContent returns a JSON array of exactly N
\* elements in input order: element i is a text element with the text of
\* part i when part i is a text part, and a tool-call element with the
\* toolCallId and toolName of part i when part i is a tool-call part
C22_AssistantPartsInOrder ==
    \A r \in Reqs :
        (Formatted(r) /\ Input(r).role = "assistant" /\ Input(r).content.kind = "parts")
        => LET parts == Input(r).content.parts
               out == Output(r)
           IN /\ out.kind = "json"
              /\ Len(out.parts) = Len(parts)
              /\ \A i \in 1..Len(parts) :
                    /\ out.parts[i].type = parts[i].type
                    /\ parts[i].type = "text" => out.parts[i].text = parts[i].text
                    /\ parts[i].type = "tool-call" =>
                          /\ out.parts[i].toolCallId = parts[i].toolCallId
                          /\ out.parts[i].toolName = parts[i].toolName

\* a tool call between two text parts comes out between two text elements
C22_Witness ==
    \E r \in Reqs :
        /\ Formatted(r) /\ Input(r).role = "assistant"
        /\ Input(r).content.kind = "parts"
        /\ Len(Input(r).content.parts) = 3
        /\ Input(r).content.parts[2].type = "tool-call"
        /\ Output(r).kind = "json"
        /\ [i \in 1..3 |-> Output(r).parts[i].type] = <<"text", "tool-call", "text">>

\* C23: formatMessageContent returns a value for every well-typed message
\* and follows the per-role table: a user message with string content is
\* returned unchanged; an assistant message with string content becomes a
\* one-element array holding a text part with that string; each part of a
\* tool message keeps its own type and gets "tool-result" only when it has
\* none; any other role yields the empty string
C23_PerRoleTable ==
    \A r \in Reqs :
        Formatted(r) =>
            LET in == Input(r)
                out == Output(r)
            IN /\ Len(messages) = 1
               /\ out.kind \in {"string", "json"}
               /\ (in.role = "user" /\ in.content.kind = "string") =>
                     out = [kind |-> "string", text |-> in.content.text]
               /\ (in.role = "assistant" /\ in.content.kind = "string") =>
                     out = [kind |-> "json",
                            parts |-> <<[type |-> "text", text |-> in.content.text]>>]
               /\ in.role = "tool" =>
                     /\ out.kind = "json"
                     /\ Len(out.parts) = Len(in.content.parts)
                     /\ \A i \in 1..Len(out.parts) :
                           /\ in.content.parts[i].type # "" =>
                                 out.parts[i].type = in.content.parts[i].type
                           /\ in.content.parts[i].type = "" =>
                                 out.parts[i].type = "tool-result"
                           /\ out.parts[i].toolCallId = in.content.parts[i].toolCallId
               /\ in.role \notin {"user", "assistant", "tool"} =>
                     out = [kind |-> "string", text |-> ""]

\* a tool message with a part without a type and a part of another type
C23_Witness ==
    \E r \in Reqs :
        /\ Formatted(r) /\ Input(r).role = "tool"
        /\ Len(Input(r).content.parts) = 2
        /\ Input(r).content.parts[1].type = ""
        /\ Input(r).content.parts[2].type = "custom"
        /\ Output(r).parts[1].type = "tool-result"
        /\ Output(r).parts[2].type = "custom"

IsPrefix(s, t) == Len(s) <= Len(t) /\ \A i \in 1..Len(s) : s[i] = t[i]

\* what a createDocument or updateDocument execution has appended so far, in
\* the order of its own statements, read from the execution's local state
AppendedBy(call) ==
    LET src == call.toolCallId
        head == IF call.pc = "start" \/ call.result = "error" THEN <<>>
                ELSE IF call.toolName = "createDocument"
                THEN <<DataEvent("id", call.id, "", src),
                       DataEvent("title", NoId, call.title, src),
                       DataEvent("clear", NoId, "", src)>>
                ELSE <<DataEvent("clear", NoId, call.title, src)>>
        deltas == [i \in 1..Len(call.draft) |->
                      DataEvent("text-delta", NoId, call.draft[i], src)]
        tail == IF call.result = "ok" \/ call.error = StoreError
                THEN <<DataEvent("finish", NoId, "", src)>> ELSE <<>>
    IN head \o deltas \o tail

\* C24: when the tool calls of one step run concurrently, StreamData only
\* grows at its end, and under every interleaving the events of each
\* execution are in StreamData in the order in which that execution appended
\* them; only events of different executions interleave
C24_ToolEventOrder ==
    /\ [](\A c \in CallsOf("createDocument") \cup CallsOf("updateDocument") :
            EventsOf(c[1], c[2]) = AppendedBy(turn[c[1]].calls[c[2]]))
    /\ [][\A r \in Reqs : IsPrefix(Stream(r), Stream(r)')]_vars

\* two executions of one step whose events interleave in StreamData
C24_Witness ==
    \E r \in Reqs :
        /\ Len(turn[r].calls) = 2
        /\ turn[r].calls[1].result = "ok" /\ turn[r].calls[2].result = "ok"
        /\ Len(turn[r].calls[1].draft) >= 1 /\ Len(turn[r].calls[2].draft) >= 1
        /\ \E i, j, l \in 1..Len(Stream(r)) :
              /\ i < j /\ j < l
              /\ Stream(r)[i].src = turn[r].calls[1].toolCallId
              /\ Stream(r)[j].src = turn[r].calls[2].toolCallId
              /\ Stream(r)[l].src = turn[r].calls[1].toolCallId

\* C25: updateDocument and requestSuggestions invoked on a document that is
\* not owned by the caller are rejected explicitly before any write: the
\* step that reads such a document ends the execution with the error result,
\* and no step of the execution changes the documents or suggestions tables
C25_ForeignDocumentRejected ==
    [][\A c \in CallsOf("updateDocument") \cup CallsOf("requestSuggestions") :
          LET r == c[1]
              k == c[2]
              document == getDocumentById(turn[r].calls[k].id)
          IN (/\ document # NoDoc
              /\ document.userId # req[r].user
              /\ k \in 1..Len(turn'[r].calls)
              /\ turn[r].calls[k].pc # turn'[r].calls[k].pc)
             => /\ turn'[r].calls[k].result = "error"
                /\ UNCHANGED <<documents, suggestions>>]_vars

\* C26: every suggestion row persisted by requestSuggestions is owned by the
\* user who owns the document it refers to
C26_SuggestionOwnerIsDocumentOwner ==
    \A i \in 1..Len(suggestions) :
        suggestions[i].userId = getDocumentById(suggestions[i].documentId).userId

\* C27: the owner of an existing chat row never changes under any
\* interleaving of POST and DELETE requests: a step leaves the row with the
\* same owner or removes it; a row is created only by a POST, with its
\* caller as owner, and removed only by a DELETE of its owner
C27_ChatOwnerImmutable ==
    [][\A id \in ChatIds :
          /\ chats[id] # NoUser => chats'[id] \in {chats[id], NoUser}
          /\ (chats[id] = NoUser /\ chats'[id] # NoUser) =>
                \E r \in Reqs : /\ IsPost(r) /\ pc[r] = "saveChat"
                                 /\ req[r].id = id /\ chats'[id] = req[r].user
          /\ (chats[id] # NoUser /\ chats'[id] = NoUser) =>
                \E r \in Reqs : /\ IsDelete(r) /\ pc[r] = "deleteChat"
                                 /\ req[r].id = id /\ chats[id] = req[r].user]_vars

\* a chat one POST created, after a request of another user on the same id
\* has run to its end
C27_Witness ==
    \E r1, r2 \in Reqs :
        /\ IsPost(r1) /\ turn[r1].chat = NoUser /\ turn[r1].writes >= 1
        /\ chats[req[r1].id] = req[r1].user
        /\ req[r2].id = req[r1].id
        /\ req[r2].user \in Users \ {req[r1].user}
        /\ pc[r2] = "done"
        /\ turn[r2].chat # "unread"

C29_PersistedTurnGenerates ==
    \A r \in Reqs :
        (/\ IsPost(r) /\ pc[r] = "done"
         /\ turn[r].userSaves >= 1
         /\ outcome[r] # "thrown")
        => /\ outcome[r] = "stream"
           /\ turn[r].created
           /\ turn[r].steps >= 1

\* C30: when every model invocation and every tool execution comes to its
\* end, the POST turn of the loop specification (request 1), once it has
\* reached the generation loop and unless its stream is cut off, comes to
\* its end with onFinish run (the response save attempted) and StreamData
\* closed, whatever tool calls the model requests in its steps
C30_TurnTerminates ==
    (pc[1] = "generate") ~>
        \/ pc[1] = "aborted"
        \/ pc[1] = "done" /\ turn[1].saved # "none" /\ Closes(1) = 1

\* a turn that used every step of the loop and then ran onFinish and close
C30_Witness ==
    \E r \in Reqs :
        /\ pc[r] = "done" /\ outcome[r] = "stream"
        /\ turn[r].steps = maxSteps
        /\ turn[r].toolCalls >= maxSteps
        /\ turn[r].saved # "none"
        /\ Closes(r) = 1

\* C31: an execution of getWeather leaves the chats, messages, documents and
\* suggestions tables and the event sequence of StreamData as they were; it
\* ends in one step, returning the payload the provider answered with (or
\* throwing when the fetch failed), and no event in StreamData comes from it
C31_GetWeatherFrame ==
    /\ [](\A c \in CallsOf("getWeather") :
            /\ EventsOf(c[1], c[2]) = <<>>
            /\ turn[c[1]].calls[c[2]].pc = "done" => turn[c[1]].calls[c[2]].result = "ok")
    /\ [][\A c \in CallsOf("getWeather") :
            LET r == c[1]
                k == c[2]
            IN (turn[r].calls[k].pc = "start" /\ turn'[r].calls[k].pc # "start") =>
                 /\ UNCHANGED <<chats, messages, documents, suggestions>>
                 /\ turn'[r].stream = turn[r].stream
                 /\ turn'[r].writes = turn[r].writes
                 /\ turn'[r].calls[k].pc \in {"done", "threw"}
                 /\ turn'[r].calls[k].error = "" => turn'[r].calls[k].result = "ok"]_vars

\* two getWeather executions of one step have returned, and StreamData is
\* still empty
C31_Witness ==
    \E r \in Reqs :
        /\ Len(turn[r].calls) = 2
        /\ \A k \in 1..2 : /\ turn[r].calls[k].toolName = "getWeather"
                             /\ turn[r].calls[k].result = "ok"
        /\ Stream(r) = <<>>

\* C32: every message id announced by a message annotation of a turn is the
\* id of a row of the messages table; in particular a turn whose response
\* save failed has no annotation in its StreamData
C32_AnnotatedIdsArePersisted ==
    \A r \in Reqs :
        /\ \A e \in 1..Len(Stream(r)) :
              Stream(r)[e].ch = "annotation" =>
                  \E i \in 1..Len(messages) : messages[i].id = Stream(r)[e].content.id
        /\ turn[r].saved = "failed" =>
              \A e \in 1..Len(Stream(r)) : Stream(r)[e].ch # "annotation"

\* the parts of the nested generation an execution has consumed, in order
ConsumedParts(call) == [i \in 1..call.parts |-> StreamPart(i)]

C34_FinishImpliesPersisted ==
    \A c \in CallsOf("createDocument") \cup CallsOf("updateDocument") :
        LET call == turn[c[1]].calls[c[2]]
            ev == EventsOf(c[1], c[2])
        IN (\E i \in 1..Len(ev) : ev[i].type = "finish") =>
              /\ call.pc = "done"
              /\ call.result = "ok"
              /\ \E d \in documents : d.id = call.id

\* the user-role rows of a messages table that request r inserted
UserRowsOf(table, r) ==
    {i \in 1..Len(table) : table[i].id[1] = r /\ table[i].role = "user"}

\* C35: one POST inserts at most one user-message row, whichever of the two
\* saves (the one of the try block, the one of the conflict branch of the
\* catch block) performs it: a step adds at most one such row, every such
\* step is counted, and the count never exceeds one
C35_AtMostOneUserRow ==
    /\ [](\A r \in Reqs :
            /\ turn[r].userSaves <= 1
            /\ Cardinality(UserRowsOf(messages, r)) <= turn[r].userSaves
            /\ turn[r].conflict => pc[r] \notin {"saveUserMessage", "streamText"})
    /\ [][\A r \in Reqs :
            Cardinality(UserRowsOf(messages', r)) > Cardinality(UserRowsOf(messages, r)) =>
                /\ Cardinality(UserRowsOf(messages', r)) =
                      Cardinality(UserRowsOf(messages, r)) + 1
                /\ turn'[r].userSaves = turn[r].userSaves + 1
                /\ pc[r] \in {"saveUserMessage", "catchSave"}]_vars

\* one request saved its user message in the try block and another one in
\* the conflict branch of the catch block, one row each
C35_Witness ==
    \E r, q \in Reqs :
        /\ ~turn[r].conflict /\ turn[r].userSaves = 1
        /\ Cardinality(UserRowsOf(messages, r)) = 1
        /\ turn[q].conflict /\ turn[q].userSaves = 1 /\ pc[q] = "done"
        /\ Cardinality(UserRowsOf(messages, q)) = 1

\* C36: the response save of onFinish is one write that appends to the
\* messages table exactly one row per sanitized response message, in the
\* order of the messages, each with the role and the formatted content of
\* its message, the chat id of the request, and an id that no older row and
\* no other row of the batch has; the rows already there are untouched
C36_ResponseSaveOneRowPerMessage ==
    [][\A r \in Reqs :
        (pc[r] = "onFinish" /\ turn'[r].saved = "ok") =>
            LET msgs == sanitizeResponseMessages(turn[r].response)
                old == Len(messages)
            IN /\ Len(messages') = old + Len(msgs)
               /\ \A i \in 1..old : messages'[i] = messages[i]
               /\ \A i \in 1..Len(msgs) :
                     /\ messages'[old + i].role = msgs[i].role
                     /\ messages'[old + i].content = formatMessageContent(msgs[i])
                     /\ messages'[old + i].chat_id = req[r].id
                     /\ \A j \in 1..(old + Len(msgs)) :
                           j # old + i => messages'[j].id # messages'[old + i].id
               /\ turn'[r].writes = turn[r].writes + 1]_vars

\* a response of three or more messages, assistant and tool, has been saved
C36_Witness ==
    \E r \in Reqs :
        /\ turn[r].saved = "ok"
        /\ Len(sanitizeResponseMessages(turn[r].response)) >= 3
        /\ Cardinality({i \in RowsOf(r) : messages[i].role # "user"}) >= 3
        /\ \E i \in RowsOf(r) : messages[i].role = "tool"

\* C37: the step in which updateDocument saves changes only the content of
\* the document it loaded: the row of that id afterwards is the loaded row
\* with the new draft as content, every other field (id, title, owner) as
\* it was, and every row of another id is as it was
C37_UpdateChangesOnlyContent ==
    [][\A c \in CallsOf("updateDocument") :
          LET r == c[1]
              k == c[2]
              document == getDocumentById(turn[r].calls[k].id)
          IN (turn[r].calls[k].pc = "stream" /\ turn'[r].calls[k].pc = "done") =>
               /\ {d \in documents' : d.id = document.id} =
                      {[document EXCEPT !.content = turn[r].calls[k].draft]}
               /\ {d \in documents' : d.id # document.id} =
                      {d \in documents : d.id # document.id}]_vars

\* request r appends rows to the messages table in this step
AppendsRows(r) ==
    /\ Len(messages') > Len(messages)
    /\ Last(messages').id[1] = r

====
